---------------------------- MODULE Spec2Model ----------------------------
(***************************************************************************)
(* Model of nipype/workflows/dmri/preprocess/epi.py (the hmc_pipeline,     *)
(* ecc_pipeline and sdc_fmb workflow declarations and their connection     *)
(* helpers) and of nipype/interfaces/minc/tests/test_auto_Gennlxfm.py.     *)
(*                                                                         *)
(* A workflow is its list of connections.  A node runs once every node it  *)
(* is connected from has run; what it receives on an input field is the    *)
(* connected output, passed through the connection's function if any.      *)
(* Python lists are sequences; list index i is sequence index i + 1.       *)
(***************************************************************************)
EXTENDS Integers, Sequences, FiniteSets, TLC

VARIABLES
    wf,        \* the workflow being run, or "test" for the generated test
    inputs,    \* the fields set on the workflow's inputnode
    ins,       \* node -> the record of inputs delivered to it when it ran
    out,       \* node -> the record of outputs of each node that has run
    failed,    \* nodes whose interface raised
    runs,      \* node -> number of times the executor started it
    running,   \* nodes the executor has started and that have not finished
    cls,       \* the input traits of the class under test
    keysLeft,  \* test: fields of input_map not yet iterated
    curKey,    \* test: field being iterated, "" between fields
    metaLeft,  \* test: metadata keys of curKey not yet asserted
    asserted,  \* test: <<field, metakey>> pairs asserted so far
    failures   \* test: <<field, metakey>> pairs whose assert_equal failed

vars == <<wf, inputs, ins, out, failed, runs, running, cls, keysLeft, curKey, metaLeft,
          asserted, failures>>

testVars == <<cls, keysLeft, curKey, metaLeft, asserted, failures>>

---------------------------------------------------------------------------
(* Bounds of the model. *)

MaxVols == 3

---------------------------------------------------------------------------
(* Python values. *)

None == [t |-> "NoneType", v |-> 0]
Undefined == [t |-> "_Undefined", v |-> 0]
PyInt(i) == [t |-> "int", v |-> i]
PyList(s) == [t |-> "list", v |-> s]

isdefined(x) == x.t # "_Undefined"

At(list, i) == list[i + 1]

Range(s) == {s[k] : k \in 1..Len(s)}

Ok(x) == [err |-> "", val |-> x]
Raise(e) == [err |-> e, val |-> <<>>]

---------------------------------------------------------------------------
(* 4x4 matrices, as stored in FLIRT's .mat files; a file is its name and   *)
(* its rows of numbers.                                                    *)

Eye4 == << <<1, 0, 0, 0>>, <<0, 1, 0, 0>>, <<0, 0, 1, 0>>, <<0, 0, 0, 1>> >>
RotZ == << <<0, -1, 0, 0>>, <<1, 0, 0, 0>>, <<0, 0, 1, 0>>, <<0, 0, 0, 1>> >>
FlipX == << <<-1, 0, 0, 5>>, <<0, 1, 0, 0>>, <<0, 0, 1, 0>>, <<0, 0, 0, 1>> >>
ShearT == << <<1, 2, 0, 3>>, <<0, 1, 0, 0>>, <<0, 1, 2, 0>>, <<0, 0, 0, 1>> >>
Squash == << <<1, 1, 0, 0>>, <<1, 1, 0, 0>>, <<0, 0, 1, 0>>, <<0, 0, 0, 1>> >>

RigidMats == {Eye4, RotZ}
AffineMats == {FlipX, ShearT, Squash}

MatFile(name, data) == [name |-> name, rows |-> data]

Minor(m, j) ==
    [r \in 1..(Len(m) - 1) |->
        [c \in 1..(Len(m) - 1) |-> m[r + 1][IF c < j THEN c ELSE c + 1]]]

RECURSIVE det(_)
det(m) ==
    IF Len(m) = 1 THEN m[1][1]
    ELSE LET term(j) == (IF j % 2 = 1 THEN 1 ELSE -1) * m[1][j] * det(Minor(m, j))
             sum[j \in 0..Len(m)] == IF j = 0 THEN 0 ELSE sum[j - 1] + term(j)
         IN  sum[Len(m)]

fabs(x) == IF x < 0 THEN -x ELSE x

---------------------------------------------------------------------------
(* Interfaces of the workflow library the nodes wrap. *)

Vol(i) == [vol |-> i]

Split(in_file) == [k \in 1..in_file.nvols |-> Vol(k - 1)]

ValidIndex(inlist, i) == -Len(inlist) <= i /\ i < Len(inlist)

Item(inlist, i) == IF i < 0 THEN At(inlist, Len(inlist) + i) ELSE At(inlist, i)

Select(inlist, index) ==
    CASE index.t = "int" ->
            IF ValidIndex(inlist, index.v) THEN Ok(Item(inlist, index.v))
            ELSE Raise("IndexError")
      [] index.t = "list" ->
            IF \A k \in 1..Len(index.v) : ValidIndex(inlist, index.v[k])
            THEN Ok([k \in 1..Len(index.v) |-> Item(inlist, index.v[k])])
            ELSE Raise("IndexError")
      [] OTHER -> Raise("TraitError")

FLIRT(in_file, reference, ref_weight, init, xfm) ==
    [moving |-> in_file, reference |-> reference, ref_weight |-> ref_weight,
     init |-> init, xfm |-> xfm]

rotate_bvecs(in_bvec, in_matrix) == [bvec |-> in_bvec, rotated_by |-> in_matrix]

Merge(in_files) == [merged |-> in_files]

---------------------------------------------------------------------------
(* The helpers of epi.py applied on connections. *)

_checkrnum_noundef(ref_num) ==
    IF ref_num = None THEN PyInt(0) ELSE ref_num

_checkrnum(ref_num) ==
    IF ref_num = None \/ ~isdefined(ref_num) THEN PyInt(0) ELSE ref_num

---------------------------------------------------------------------------
(* Connections: source node, source field, function applied, destination   *)
(* node, destination field.                                                *)

Conn(src, srcfield, fn, dst, dstfield) ==
    [src |-> src, srcfield |-> srcfield, fn |-> fn, dst |-> dst, dstfield |-> dstfield]

hmc_connections_unmerged ==
    << Conn("inputnode", "in_file", "", "SplitDWIs", "in_file"),
       Conn("SplitDWIs", "out_files", "", "Pick_b0", "inlist"),
       Conn("inputnode", "ref_num", "_checkrnum", "Pick_b0", "index"),
       Conn("inputnode", "in_mask", "", "CoRegistration", "ref_weight"),
       Conn("SplitDWIs", "out_files", "", "CoRegistration", "in_file"),
       Conn("inputnode", "in_bvec", "", "Rotate_Bvec", "in_bvec"),
       Conn("CoRegistration", "out_matrix_file", "", "Rotate_Bvec", "in_matrix"),
       Conn("Pick_b0", "out", "", "CoRegistration", "reference"),
       Conn("CoRegistration", "out_file", "", "MergeDWIs", "in_files"),
       Conn("CoRegistration", "out_file", "", "outputnode", "out_file"),
       Conn("Rotate_Bvec", "out_file", "", "outputnode", "out_bvec"),
       Conn("CoRegistration", "out_matrix_file", "", "outputnode", "out_xfms") >>

hmc_connections ==
    << Conn("inputnode", "in_file", "", "SplitDWIs", "in_file"),
       Conn("SplitDWIs", "out_files", "", "Pick_b0", "inlist"),
       Conn("inputnode", "ref_num", "_checkrnum", "Pick_b0", "index"),
       Conn("inputnode", "in_mask", "", "CoRegistration", "ref_weight"),
       Conn("SplitDWIs", "out_files", "", "CoRegistration", "in_file"),
       Conn("inputnode", "in_bvec", "", "Rotate_Bvec", "in_bvec"),
       Conn("CoRegistration", "out_matrix_file", "", "Rotate_Bvec", "in_matrix"),
       Conn("Pick_b0", "out", "", "CoRegistration", "reference"),
       Conn("CoRegistration", "out_file", "", "MergeDWIs", "in_files"),
       Conn("MergeDWIs", "merged_file", "", "outputnode", "out_file"),
       Conn("Rotate_Bvec", "out_file", "", "outputnode", "out_bvec"),
       Conn("CoRegistration", "out_matrix_file", "", "outputnode", "out_xfms") >>

---------------------------------------------------------------------------
(* numpy: a text file is its rows; loadtxt squeezes a 1x1 table to a 0-d    *)
(* array and a one-row table to a 1-d array.  len() of a 0-d array raises; *)
(* where() treats it as an array of one element, as numpy 1.x does.        *)

TextFile(name, rows) == [name |-> name, rows |-> rows]

loadtxt(file) ==
    IF Len(file.rows) = 1 /\ Len(file.rows[1]) = 1
    THEN [ndim |-> 0, data |-> file.rows[1][1]]
    ELSE IF Len(file.rows) = 1
         THEN [ndim |-> 1, data |-> file.rows[1]]
         ELSE [ndim |-> 2, data |-> file.rows]

len(a) ==
    CASE a.t = "ndarray" -> IF a.v.ndim = 0 THEN Raise("TypeError") ELSE Ok(Len(a.v.data))
      [] a.t = "list" -> Ok(Len(a.v))
      [] OTHER -> Raise("TypeError")

Flat(arr) == IF arr.ndim = 0 THEN <<arr.data>> ELSE arr.data

where_ne0(arr) ==
    LET d == Flat(arr)
        nz[k \in 0..Len(d)] ==
            IF k = 0 THEN <<>>
            ELSE IF d[k] # 0 THEN Append(nz[k - 1], k - 1) ELSE nz[k - 1]
    IN  nz[Len(d)]

RECURSIVE zfill4(_)
zfill4(s) == IF Len(s) >= 4 THEN s ELSE zfill4("0" \o s)

abspath(name) == "/cwd/" \o name

---------------------------------------------------------------------------
(* Functions of the workflows' utils module and the FSL maths interfaces. *)

b0_average(in_dwi, in_bval) ==
    LET d == Flat(loadtxt(in_bval))
    IN  [b0_avg_of |-> in_dwi.name, b0s |-> {k - 1 : k \in {j \in 1..Len(d) : d[j] = 0}}]

Recompose(in_bval, b0_values, in_corrected) ==
    LET d == Flat(loadtxt(in_bval))
        rank(k) == Cardinality({j \in 1..k : d[j] # 0})
    IN  [k \in 1..Len(d) |->
            IF d[k] = 0 THEN b0_values[k]
            ELSE IF rank(k) <= Len(in_corrected) THEN in_corrected[rank(k)]
                 ELSE [missing |-> k - 1]]

recompose_xfm(in_bval, in_xfms) ==
    Recompose(in_bval,
              [k \in 1..Len(Flat(loadtxt(in_bval))) |-> MatFile("eye.mat", Eye4)],
              in_xfms)

recompose_dwi(in_dwi, in_bval, in_corrected) ==
    [recomposed |-> Recompose(in_bval, Split(in_dwi), in_corrected)]

BinaryMaths(operation, in_file, operand_value) ==
    [op |-> operation, in_file |-> in_file, operand |-> operand_value]

Threshold(thresh, in_file) == [op |-> "thr", in_file |-> in_file, operand |-> thresh]

---------------------------------------------------------------------------
(* The helpers of epi.py used by ecc_pipeline. *)

_nonb0_from_one(in_bval) ==
    LET bvals == loadtxt(in_bval)
        nz == where_ne0(bvals)
    IN  [k \in 1..Len(nz) |-> nz[k] + 1]

_nonb0(in_bval) ==
    LET bvals == loadtxt(in_bval)
    IN  where_ne0(bvals)

_checkinitxfm_all(in_bval, in_xfms) ==
    LET bvals == loadtxt(in_bval)
        non_b0 == where_ne0(bvals)
        nbvals == len([t |-> "ndarray", v |-> bvals])
        identities ==
            [k \in 1..Len(non_b0) |->
                MatFile(abspath("init_" \o zfill4(ToString(non_b0[k])) \o ".mat"), Eye4)]
    IN  IF in_xfms = None \/ ~isdefined(in_xfms) THEN Ok(identities)
        ELSE IF len(in_xfms).err # "" THEN Raise(len(in_xfms).err)
        ELSE IF nbvals.err # "" THEN Raise(nbvals.err)
        ELSE IF len(in_xfms).val # nbvals.val THEN Ok(identities)
        ELSE Ok(in_xfms.v)

_checkinitxfm(in_bval, in_xfms) ==
    LET bvals == loadtxt(in_bval)
        non_b0 == where_ne0(bvals)
        nbvals == len([t |-> "ndarray", v |-> bvals])
        identities ==
            [k \in 1..Len(non_b0) |->
                MatFile(abspath("init_" \o zfill4(ToString(non_b0[k])) \o ".mat"), Eye4)]
    IN  IF in_xfms = None \/ ~isdefined(in_xfms) THEN Ok(identities)
        ELSE IF len(in_xfms).err # "" THEN Raise(len(in_xfms).err)
        ELSE IF nbvals.err # "" THEN Raise(nbvals.err)
        ELSE IF len(in_xfms).val # nbvals.val THEN Ok(identities)
        ELSE Ok([k \in 1..Len(non_b0) |-> At(in_xfms.v, non_b0[k])])

_xfm_jacobian_signed(in_xfm) ==
    [k \in 1..Len(in_xfm) |-> det(loadtxt(in_xfm[k]).data)]

_xfm_jacobian(in_xfm) ==
    [k \in 1..Len(in_xfm) |->
        fabs(det(loadtxt(in_xfm[k]).data))]

---------------------------------------------------------------------------
(* ecc_pipeline and sdc_fmb connections. *)

ecc_connections_cyclic ==
    << Conn("inputnode", "in_file", "", "SplitDWIs", "in_file"),
       Conn("inputnode", "in_file", "", "b0_avg", "in_dwi"),
       Conn("inputnode", "in_bval", "", "b0_avg", "in_bval"),
       Conn("inputnode", "in_file", "", "MergeDWIs", "in_dwi"),
       Conn("inputnode", "in_bval", "", "MergeDWIs", "in_bval"),
       Conn("inputnode", "in_xfms", "", "InitXforms", "in_xfms"),
       Conn("inputnode", "in_bval", "", "InitXforms", "in_bval"),
       Conn("inputnode", "in_bval", "", "GatherMatrices", "in_bval"),
       Conn("SplitDWIs", "out_files", "", "Pick_DWIs", "inlist"),
       Conn("inputnode", "in_bval", "_nonb0", "Pick_DWIs", "index"),
       Conn("inputnode", "in_mask", "", "CoRegistration", "ref_weight"),
       Conn("b0_avg", "out_file", "", "CoRegistration", "reference"),
       Conn("Pick_DWIs", "out", "", "CoRegistration", "in_file"),
       Conn("InitXforms", "init_xfms", "", "CoRegistration", "in_matrix_file"),
       Conn("CoRegistration", "out_matrix_file", "", "GatherMatrices", "in_xfms"),
       Conn("CoRegistration", "out_matrix_file", "_xfm_jacobian", "ModulateDWIs", "operand_value"),
       Conn("RemoveNegative", "out_file", "", "ModulateDWIs", "in_file"),
       Conn("ModulateDWIs", "out_file", "", "RemoveNegative", "in_file"),
       Conn("RemoveNegative", "out_file", "", "MergeDWIs", "in_corrected"),
       Conn("GatherMatrices", "out_files", "", "outputnode", "out_xfms"),
       Conn("MergeDWIs", "out_file", "", "outputnode", "out_file") >>

ecc_connections ==
    << Conn("inputnode", "in_file", "", "SplitDWIs", "in_file"),
       Conn("inputnode", "in_file", "", "b0_avg", "in_dwi"),
       Conn("inputnode", "in_bval", "", "b0_avg", "in_bval"),
       Conn("inputnode", "in_file", "", "MergeDWIs", "in_dwi"),
       Conn("inputnode", "in_bval", "", "MergeDWIs", "in_bval"),
       Conn("inputnode", "in_xfms", "", "InitXforms", "in_xfms"),
       Conn("inputnode", "in_bval", "", "InitXforms", "in_bval"),
       Conn("inputnode", "in_bval", "", "GatherMatrices", "in_bval"),
       Conn("SplitDWIs", "out_files", "", "Pick_DWIs", "inlist"),
       Conn("inputnode", "in_bval", "_nonb0", "Pick_DWIs", "index"),
       Conn("inputnode", "in_mask", "", "CoRegistration", "ref_weight"),
       Conn("b0_avg", "out_file", "", "CoRegistration", "reference"),
       Conn("Pick_DWIs", "out", "", "CoRegistration", "in_file"),
       Conn("InitXforms", "init_xfms", "", "CoRegistration", "in_matrix_file"),
       Conn("CoRegistration", "out_matrix_file", "", "GatherMatrices", "in_xfms"),
       Conn("CoRegistration", "out_matrix_file", "_xfm_jacobian", "ModulateDWIs", "operand_value"),
       Conn("CoRegistration", "out_file", "", "ModulateDWIs", "in_file"),
       Conn("ModulateDWIs", "out_file", "", "RemoveNegative", "in_file"),
       Conn("RemoveNegative", "out_file", "", "MergeDWIs", "in_corrected"),
       Conn("GatherMatrices", "out_files", "", "outputnode", "out_xfms"),
       Conn("MergeDWIs", "out_file", "", "outputnode", "out_file") >>

sdc_connections ==
    << Conn("inputnode", "bmap_pha", "", "PreparePhase", "in_file"),
       Conn("inputnode", "bmap_mag", "", "GetFirst", "in_file"),
       Conn("inputnode", "in_file", "", "b0_avg", "in_dwi"),
       Conn("inputnode", "in_bval", "", "b0_avg", "in_bval"),
       Conn("GetFirst", "roi_file", "", "Bias", "input_image"),
       Conn("Bias", "output_image", "", "BrainExtraction", "in_file"),
       Conn("BrainExtraction", "mask_file", "", "MskDilate", "in_file"),
       Conn("PreparePhase", "out_file", "", "PhaseUnwrap", "phase_file"),
       Conn("Bias", "output_image", "", "PhaseUnwrap", "magnitude_file"),
       Conn("MskDilate", "out_file", "", "PhaseUnwrap", "mask_file"),
       Conn("PhaseUnwrap", "unwrapped_phase_file", "", "ToRadSec", "in_file"),
       Conn("b0_avg", "out_file", "", "BmapMag2B0", "reference"),
       Conn("inputnode", "in_mask", "", "BmapMag2B0", "ref_weight"),
       Conn("Bias", "output_image", "", "BmapMag2B0", "in_file"),
       Conn("MskDilate", "out_file", "", "BmapMag2B0", "in_weight"),
       Conn("b0_avg", "out_file", "", "BmapPha2B0", "reference"),
       Conn("ToRadSec", "out_file", "", "BmapPha2B0", "in_file"),
       Conn("BmapMag2B0", "out_matrix_file", "", "BmapPha2B0", "in_matrix_file"),
       Conn("BmapPha2B0", "out_file", "", "PreliminaryFugue", "fmap_in_file"),
       Conn("inputnode", "in_mask", "", "PreliminaryFugue", "mask_file"),
       Conn("PreliminaryFugue", "fmap_out_file", "", "DemeanFmap", "in_file"),
       Conn("inputnode", "in_mask", "", "DemeanFmap", "in_mask"),
       Conn("DemeanFmap", "out_file", "", "cleanup", "inputnode.in_file"),
       Conn("inputnode", "in_mask", "", "cleanup", "inputnode.in_mask") >>

---------------------------------------------------------------------------
(* The workflow as a graph, and what a node receives. *)

Connections(w) ==
    CASE w = "hmc" -> hmc_connections
      [] w = "ecc" -> ecc_connections
      [] w = "sdc" -> sdc_connections
      [] OTHER -> <<>>

NodesOf(w) ==
    {c.src : c \in Range(Connections(w))} \cup {c.dst : c \in Range(Connections(w))}

Preds(w, n) == {c.src : c \in {d \in Range(Connections(w)) : d.dst = n}}

Succs(w, n) == {c.dst : c \in {d \in Range(Connections(w)) : d.src = n}}

Ready(n) ==
    /\ n \in NodesOf(wf)
    /\ n \notin DOMAIN out
    /\ n \notin failed
    /\ Preds(wf, n) \subseteq DOMAIN out

ApplyFn(fn, v) ==
    CASE fn = "_checkrnum" -> _checkrnum(v)
      [] fn = "_nonb0" -> PyList(_nonb0(v))
      [] fn = "_xfm_jacobian" -> _xfm_jacobian(v)
      [] OTHER -> v

InFields(w, n) == {c.dstfield : c \in {d \in Range(Connections(w)) : d.dst = n}}

Delivered(n, f) ==
    LET cs == {k \in 1..Len(Connections(wf)) :
                  Connections(wf)[k].dst = n /\ Connections(wf)[k].dstfield = f}
        c == Connections(wf)[CHOOSE k \in cs : \A j \in cs : j <= k]
    IN  IF cs = {} THEN Undefined ELSE ApplyFn(c.fn, out[c.src][c.srcfield])

Received(n) == [f \in InFields(wf, n) |-> Delivered(n, f)]

Finish(n, outputs) ==
    /\ out' = (n :> outputs) @@ out
    /\ ins' = (n :> Received(n)) @@ ins
    /\ runs' = [runs EXCEPT ![n] = @ + 1]
    /\ UNCHANGED <<wf, inputs, failed, running>>
    /\ UNCHANGED testVars

Fail(n) ==
    /\ failed' = failed \cup {n}
    /\ ins' = (n :> Received(n)) @@ ins
    /\ runs' = [runs EXCEPT ![n] = @ + 1]
    /\ UNCHANGED <<wf, inputs, out, running>>
    /\ UNCHANGED testVars

IdleTest ==
    /\ cls = <<>>
    /\ keysLeft = {}
    /\ curKey = ""
    /\ metaLeft = {}
    /\ asserted = {}
    /\ failures = {}

InitWorkflow(w, fields) ==
    /\ wf = w
    /\ inputs = fields
    /\ ins = <<>>
    /\ out = <<>>
    /\ failed = {}
    /\ runs = [n \in NodesOf(w) |-> 0]
    /\ running = {}
    /\ IdleTest

---------------------------------------------------------------------------
(* hmc_pipeline. *)

RefNums == {None, Undefined} \cup {PyInt(i) : i \in -1..MaxVols}

HmcInit ==
    \E n \in 1..MaxVols, r \in RefNums :
        InitWorkflow("hmc", [in_file |-> [name |-> "diffusion.nii", nvols |-> n],
                             ref_num |-> r,
                             in_bvec |-> "diffusion.bvec",
                             in_mask |-> "mask.nii"])

Hmc_inputnode ==
    /\ Ready("inputnode")
    /\ Finish("inputnode", inputs)

Hmc_SplitDWIs ==
    /\ Ready("SplitDWIs")
    /\ Finish("SplitDWIs", [out_files |-> Split(Delivered("SplitDWIs", "in_file"))])

Hmc_Pick_b0 ==
    /\ Ready("Pick_b0")
    /\ LET r == Select(Delivered("Pick_b0", "inlist"), Delivered("Pick_b0", "index"))
       IN  IF r.err = "" THEN Finish("Pick_b0", [out |-> r.val]) ELSE Fail("Pick_b0")

Hmc_CoRegistration ==
    /\ Ready("CoRegistration")
    /\ LET in_file == Delivered("CoRegistration", "in_file")
           reference == Delivered("CoRegistration", "reference")
           ref_weight == Delivered("CoRegistration", "ref_weight")
       IN  \E xfm \in [1..Len(in_file) -> RigidMats] :
              Finish("CoRegistration",
                     [out_file |->
                         [k \in 1..Len(in_file) |->
                             FLIRT(in_file[k], reference, ref_weight, Undefined, xfm[k])],
                      out_matrix_file |->
                         [k \in 1..Len(in_file) |->
                             MatFile("flirt_" \o ToString(k - 1) \o ".mat", xfm[k])]])

Hmc_Rotate_Bvec ==
    /\ Ready("Rotate_Bvec")
    /\ Finish("Rotate_Bvec",
              [out_file |-> rotate_bvecs(Delivered("Rotate_Bvec", "in_bvec"),
                                         Delivered("Rotate_Bvec", "in_matrix"))])

Hmc_MergeDWIs ==
    /\ Ready("MergeDWIs")
    /\ Finish("MergeDWIs", [merged_file |-> Merge(Delivered("MergeDWIs", "in_files"))])

Hmc_outputnode ==
    /\ Ready("outputnode")
    /\ Finish("outputnode", Received("outputnode"))

HmcNext ==
    \/ Hmc_inputnode
    \/ Hmc_SplitDWIs
    \/ Hmc_Pick_b0
    \/ Hmc_CoRegistration
    \/ Hmc_Rotate_Bvec
    \/ Hmc_MergeDWIs
    \/ Hmc_outputnode

SpecHmc == HmcInit /\ [][HmcNext]_vars

Sources(w, n, f) ==
    {<<Connections(w)[k].src, Connections(w)[k].srcfield, Connections(w)[k].fn>> :
        k \in {j \in 1..Len(Connections(w)) :
                  Connections(w)[j].dst = n /\ Connections(w)[j].dstfield = f}}

NumIncoming(w, n, f) ==
    Cardinality({j \in 1..Len(Connections(w)) :
                    Connections(w)[j].dst = n /\ Connections(w)[j].dstfield = f})

IsMissing(x) == x = None \/ x = Undefined

\* C3: the index delivered to Pick_b0 is _checkrnum(ref_num): PyInt(0) when
\* inputnode.ref_num is None or undefined, otherwise ref_num itself, unchanged;
\* with ref_num missing Pick_b0 never fails and selects volume 0.
C3_RefIndex ==
    /\ Sources("hmc", "Pick_b0", "index") = {<<"inputnode", "ref_num", "_checkrnum">>}
    /\ "Pick_b0" \in DOMAIN ins =>
          ins["Pick_b0"].index =
              IF IsMissing(inputs.ref_num) THEN PyInt(0) ELSE inputs.ref_num
    /\ IsMissing(inputs.ref_num) =>
          /\ "Pick_b0" \notin failed
          /\ "Pick_b0" \in DOMAIN ins =>
                /\ "Pick_b0" \in DOMAIN out
                /\ out["Pick_b0"].out = Vol(0)

C3_Witness ==
    /\ wf = "hmc"
    /\ inputs.ref_num = Undefined
    /\ inputs.in_file.nvols >= 2
    /\ "Pick_b0" \in DOMAIN out
    /\ ins["Pick_b0"].index = PyInt(0)
    /\ out["Pick_b0"].out = Vol(0)

\* C4: every volume of SplitDWIs, the reference included, is registered to
\* the one volume Pick_b0 selected; CoRegistration.out_matrix_file is the only
\* source of Rotate_Bvec.in_matrix and of outputnode.out_xfms, so out_bvec is
\* rotated with exactly the matrices in out_xfms; and out_file, out_bvec and
\* out_xfms each have exactly one incoming connection, from
\* MergeDWIs.merged_file, Rotate_Bvec.out_file and
\* CoRegistration.out_matrix_file.
C4_HmcWiring ==
    /\ Sources("hmc", "Rotate_Bvec", "in_matrix") = {<<"CoRegistration", "out_matrix_file", "">>}
    /\ Sources("hmc", "outputnode", "out_xfms") = {<<"CoRegistration", "out_matrix_file", "">>}
    /\ Sources("hmc", "outputnode", "out_file") = {<<"MergeDWIs", "merged_file", "">>}
    /\ Sources("hmc", "outputnode", "out_bvec") = {<<"Rotate_Bvec", "out_file", "">>}
    /\ \A f \in {"out_file", "out_bvec", "out_xfms"} : NumIncoming("hmc", "outputnode", f) = 1
    /\ NumIncoming("hmc", "Rotate_Bvec", "in_matrix") = 1
    /\ "CoRegistration" \in DOMAIN out =>
          LET vols == out["SplitDWIs"].out_files
              reg == out["CoRegistration"].out_file
          IN  /\ Len(reg) = Len(vols)
              /\ Len(out["CoRegistration"].out_matrix_file) = Len(vols)
              /\ \A k \in 1..Len(vols) :
                    /\ reg[k].moving = vols[k]
                    /\ reg[k].reference = out["Pick_b0"].out
              /\ \E k \in 1..Len(vols) : reg[k].moving = reg[k].reference
    /\ "Rotate_Bvec" \in DOMAIN out =>
          out["Rotate_Bvec"].out_file.rotated_by = out["CoRegistration"].out_matrix_file
    /\ "outputnode" \in DOMAIN out =>
          /\ out["outputnode"].out_xfms = out["CoRegistration"].out_matrix_file
          /\ out["outputnode"].out_bvec.rotated_by = out["outputnode"].out_xfms
          /\ out["outputnode"].out_bvec.bvec = inputs.in_bvec
          /\ out["outputnode"].out_file = out["MergeDWIs"].merged_file

C4_Witness ==
    /\ wf = "hmc"
    /\ "outputnode" \in DOMAIN out
    /\ Len(out["outputnode"].out_xfms) = MaxVols
    /\ out["Pick_b0"].out = Vol(1)
    /\ \E j, k \in 1..Len(out["outputnode"].out_xfms) :
          out["outputnode"].out_xfms[j].rows # out["outputnode"].out_xfms[k].rows
    /\ out["outputnode"].out_bvec.rotated_by = out["outputnode"].out_xfms

---------------------------------------------------------------------------
(* ecc_pipeline. *)

BVals == {0, 1000}

HmcXfms(n) ==
    PyList([k \in 1..n |->
              MatFile("hmc_" \o ToString(k - 1) \o ".mat", IF k % 2 = 1 THEN RotZ ELSE Eye4)])

InXfms == {None, Undefined} \cup {HmcXfms(n) : n \in 0..(MaxVols + 1)}

EccInit ==
    \E n \in 1..MaxVols :
        \E b \in [1..n -> BVals], x \in InXfms :
            InitWorkflow("ecc", [in_file |-> [name |-> "diffusion.nii", nvols |-> n],
                                 in_bval |-> TextFile("diffusion.bval", <<b>>),
                                 in_mask |-> "mask.nii",
                                 in_xfms |-> x])

Ecc_inputnode ==
    /\ Ready("inputnode")
    /\ Finish("inputnode", inputs)

Ecc_SplitDWIs ==
    /\ Ready("SplitDWIs")
    /\ Finish("SplitDWIs", [out_files |-> Split(Delivered("SplitDWIs", "in_file"))])

Ecc_b0_avg ==
    /\ Ready("b0_avg")
    /\ Finish("b0_avg", [out_file |-> b0_average(Delivered("b0_avg", "in_dwi"),
                                                 Delivered("b0_avg", "in_bval"))])

Ecc_Pick_DWIs ==
    /\ Ready("Pick_DWIs")
    /\ LET r == Select(Delivered("Pick_DWIs", "inlist"), Delivered("Pick_DWIs", "index"))
       IN  IF r.err = "" THEN Finish("Pick_DWIs", [out |-> r.val]) ELSE Fail("Pick_DWIs")

Ecc_InitXforms ==
    /\ Ready("InitXforms")
    /\ LET r == _checkinitxfm(Delivered("InitXforms", "in_bval"),
                              Delivered("InitXforms", "in_xfms"))
       IN  IF r.err = "" THEN Finish("InitXforms", [init_xfms |-> r.val])
           ELSE Fail("InitXforms")

Ecc_CoRegistration ==
    /\ Ready("CoRegistration")
    /\ LET in_file == Delivered("CoRegistration", "in_file")
           in_matrix_file == Delivered("CoRegistration", "in_matrix_file")
           reference == Delivered("CoRegistration", "reference")
           ref_weight == Delivered("CoRegistration", "ref_weight")
       IN  IF Len(in_file) # Len(in_matrix_file) THEN Fail("CoRegistration")
           ELSE \E xfm \in [1..Len(in_file) -> AffineMats] :
                   Finish("CoRegistration",
                          [out_file |->
                              [k \in 1..Len(in_file) |->
                                  FLIRT(in_file[k], reference, ref_weight,
                                        in_matrix_file[k], xfm[k])],
                           out_matrix_file |->
                              [k \in 1..Len(in_file) |->
                                  MatFile("flirt_" \o ToString(k - 1) \o ".mat", xfm[k])]])

Ecc_GatherMatrices ==
    /\ Ready("GatherMatrices")
    /\ Finish("GatherMatrices",
              [out_files |-> recompose_xfm(Delivered("GatherMatrices", "in_bval"),
                                           Delivered("GatherMatrices", "in_xfms"))])

Ecc_ModulateDWIs ==
    /\ Ready("ModulateDWIs")
    /\ LET in_file == Delivered("ModulateDWIs", "in_file")
           operand_value == Delivered("ModulateDWIs", "operand_value")
       IN  IF Len(in_file) # Len(operand_value) THEN Fail("ModulateDWIs")
           ELSE Finish("ModulateDWIs",
                       [out_file |-> [k \in 1..Len(in_file) |->
                                         BinaryMaths("mul", in_file[k], operand_value[k])]])

Ecc_RemoveNegative ==
    /\ Ready("RemoveNegative")
    /\ LET in_file == Delivered("RemoveNegative", "in_file")
       IN  Finish("RemoveNegative",
                  [out_file |-> [k \in 1..Len(in_file) |-> Threshold(0, in_file[k])]])

Ecc_MergeDWIs ==
    /\ Ready("MergeDWIs")
    /\ Finish("MergeDWIs",
              [out_file |-> recompose_dwi(Delivered("MergeDWIs", "in_dwi"),
                                          Delivered("MergeDWIs", "in_bval"),
                                          Delivered("MergeDWIs", "in_corrected"))])

Ecc_outputnode ==
    /\ Ready("outputnode")
    /\ Finish("outputnode", Received("outputnode"))

EccNext ==
    \/ Ecc_inputnode
    \/ Ecc_SplitDWIs
    \/ Ecc_b0_avg
    \/ Ecc_Pick_DWIs
    \/ Ecc_InitXforms
    \/ Ecc_CoRegistration
    \/ Ecc_GatherMatrices
    \/ Ecc_ModulateDWIs
    \/ Ecc_RemoveNegative
    \/ Ecc_MergeDWIs
    \/ Ecc_outputnode

SpecEcc == EccInit /\ [][EccNext]_vars

(* What the claims about ecc_pipeline are stated against: the b-value table *)
(* of the run and the ascending list of the indices of its non-zero        *)
(* entries, written without the code's helpers.                            *)

BvalTable == inputs.in_bval.rows[1]

NonZeroIndices == {i \in 0..(Len(BvalTable) - 1) : BvalTable[i + 1] # 0}

Ascending(S) ==
    CHOOSE s \in [1..Cardinality(S) -> S] : \A j, k \in 1..Cardinality(S) : j < k => s[j] < s[k]

Digit(i) == <<"0", "1", "2", "3", "4", "5", "6", "7", "8", "9">>[i + 1]

IdentityFile(i) == MatFile("/cwd/init_000" \o Digit(i) \o ".mat", Eye4)

UsesSupplied ==
    /\ inputs.in_xfms.t = "list"
    /\ Len(inputs.in_xfms.v) = Len(BvalTable)

ExpectedInit ==
    LET idx == Ascending(NonZeroIndices)
    IN  [k \in 1..Len(idx) |->
            IF UsesSupplied THEN inputs.in_xfms.v[idx[k] + 1] ELSE IdentityFile(idx[k])]

\* C5: the images CoRegistration registers are exactly the split volumes whose
\* b-value is non-zero, in ascending volume index without duplicates (the
\* index list given to Pick_DWIs is _nonb0(in_bval)), each registered to the
\* one output of b0_avg; no volume with b-value 0 reaches CoRegistration.
C5_NonB0Registered ==
    /\ Sources("ecc", "Pick_DWIs", "index") = {<<"inputnode", "in_bval", "_nonb0">>}
    /\ Sources("ecc", "Pick_DWIs", "inlist") = {<<"SplitDWIs", "out_files", "">>}
    /\ Sources("ecc", "CoRegistration", "in_file") = {<<"Pick_DWIs", "out", "">>}
    /\ Sources("ecc", "CoRegistration", "reference") = {<<"b0_avg", "out_file", "">>}
    /\ "Pick_DWIs" \notin failed
    /\ "Pick_DWIs" \in DOMAIN ins =>
          ins["Pick_DWIs"].index = PyList(Ascending(NonZeroIndices))
    /\ "CoRegistration" \in DOMAIN ins =>
          LET in_file == ins["CoRegistration"].in_file
          IN  /\ Len(in_file) = Cardinality(NonZeroIndices)
              /\ \A k \in 1..Len(in_file) :
                    /\ in_file[k] = Vol(Ascending(NonZeroIndices)[k])
                    /\ BvalTable[in_file[k].vol + 1] # 0
              /\ ins["CoRegistration"].reference = out["b0_avg"].out_file
              /\ out["b0_avg"].out_file.b0s = (0..(Len(BvalTable) - 1)) \ NonZeroIndices
    /\ "CoRegistration" \in DOMAIN out =>
          LET reg == out["CoRegistration"].out_file
          IN  /\ Len(reg) = Cardinality(NonZeroIndices)
              /\ \A k \in 1..Len(reg) :
                    /\ reg[k].moving = Vol(Ascending(NonZeroIndices)[k])
                    /\ reg[k].reference = out["b0_avg"].out_file

C5_Witness ==
    /\ wf = "ecc"
    /\ BvalTable = <<1000, 0, 1000>>
    /\ "CoRegistration" \in DOMAIN out
    /\ ins["CoRegistration"].in_file = <<Vol(0), Vol(2)>>
    /\ out["CoRegistration"].out_file[2].moving = Vol(2)

\* C6: for every b-value table and every in_xfms, _checkinitxfm returns
\* without an error one transform per non-b0 volume in ascending volume index:
\* in_xfms[i] for the k-th non-b0 index i when in_xfms is a list with as many
\* entries as there are b-values, and otherwise a fresh identity matrix file
\* named init_<i as 4 digits>.mat.
C6_InitXfms ==
    "InitXforms" \in DOMAIN ins =>
        /\ "InitXforms" \notin failed
        /\ "InitXforms" \in DOMAIN out
        /\ out["InitXforms"].init_xfms = ExpectedInit

\* C6 where it holds: the same, for tables of two or more b-values, and for a
\* table of one b-value when in_xfms is None or undefined.
C6_InitXfmsExceptScalarTable ==
    ("InitXforms" \in DOMAIN ins /\ (Len(BvalTable) >= 2 \/ IsMissing(inputs.in_xfms))) =>
        /\ "InitXforms" \notin failed
        /\ "InitXforms" \in DOMAIN out
        /\ out["InitXforms"].init_xfms = ExpectedInit

C6_ScalarTableRaises ==
    /\ wf = "ecc"
    /\ Len(BvalTable) = 1
    /\ inputs.in_xfms.t = "list"
    /\ "InitXforms" \in failed

IsCorrected(e, k) ==
    /\ "op" \in DOMAIN e
    /\ e = Threshold(0, BinaryMaths("mul", out["CoRegistration"].out_file[k],
                                    out["ModulateDWIs"].out_file[k].operand))
    /\ e.in_file.operand >= 0
    /\ e.in_file.operand \in {det(out["CoRegistration"].out_matrix_file[k].rows),
                              -det(out["CoRegistration"].out_matrix_file[k].rows)}

\* C7: in every execution order, each registered volume k is multiplied by
\* the absolute value of the determinant of its own k-th CoRegistration
\* matrix, then thresholded at 0, and only then given to MergeDWIs; nothing
\* registered reaches MergeDWIs or outputnode.out_file otherwise.
C7_ModulateThenThreshold ==
    /\ Sources("ecc", "ModulateDWIs", "in_file") = {<<"CoRegistration", "out_file", "">>}
    /\ Sources("ecc", "ModulateDWIs", "operand_value") =
          {<<"CoRegistration", "out_matrix_file", "_xfm_jacobian">>}
    /\ Sources("ecc", "RemoveNegative", "in_file") = {<<"ModulateDWIs", "out_file", "">>}
    /\ Sources("ecc", "MergeDWIs", "in_corrected") = {<<"RemoveNegative", "out_file", "">>}
    /\ Sources("ecc", "outputnode", "out_file") = {<<"MergeDWIs", "out_file", "">>}
    /\ "RemoveNegative" \in DOMAIN ins => "ModulateDWIs" \in DOMAIN out
    /\ "MergeDWIs" \in DOMAIN ins => "RemoveNegative" \in DOMAIN out
    /\ "ModulateDWIs" \in DOMAIN ins =>
          LET mats == out["CoRegistration"].out_matrix_file
              op == ins["ModulateDWIs"].operand_value
          IN  /\ Len(op) = Len(mats)
              /\ \A k \in 1..Len(mats) :
                    /\ op[k] >= 0
                    /\ op[k] \in {det(mats[k].rows), -det(mats[k].rows)}
    /\ "ModulateDWIs" \in DOMAIN out =>
          /\ Len(out["ModulateDWIs"].out_file) = Len(out["CoRegistration"].out_file)
          /\ \A k \in 1..Len(out["ModulateDWIs"].out_file) :
                out["ModulateDWIs"].out_file[k] =
                    BinaryMaths("mul", out["CoRegistration"].out_file[k],
                                ins["ModulateDWIs"].operand_value[k])
    /\ "MergeDWIs" \in DOMAIN ins =>
          LET c == ins["MergeDWIs"].in_corrected
          IN  /\ Len(c) = Len(out["CoRegistration"].out_file)
              /\ \A k \in 1..Len(c) : IsCorrected(c[k], k)
    /\ "outputnode" \in DOMAIN out =>
          LET vols == out["outputnode"].out_file.recomposed
              idx == Ascending(NonZeroIndices)
          IN  /\ Len(vols) = Len(BvalTable)
              /\ \A i \in 0..(Len(vols) - 1) :
                    IF i \in NonZeroIndices
                    THEN \E k \in 1..Len(idx) : idx[k] = i /\ IsCorrected(vols[i + 1], k)
                    ELSE vols[i + 1] = Vol(i)

C7_Witness ==
    /\ wf = "ecc"
    /\ BvalTable = <<0, 1000, 1000>>
    /\ "outputnode" \in DOMAIN out
    /\ out["CoRegistration"].out_matrix_file[1].rows = FlipX
    /\ out["CoRegistration"].out_matrix_file[2].rows = ShearT
    /\ ins["ModulateDWIs"].operand_value = <<1, 2>>
    /\ out["outputnode"].out_file.recomposed[3].in_file.operand = 2
    /\ out["outputnode"].out_file.recomposed[3].in_file.in_file.moving = Vol(2)

\* C8: for every b-value table and every in_xfms, the lists delivered to the
\* paired iterfields of a MapNode have equal length and are index-aligned:
\* CoRegistration.in_file and in_matrix_file have one entry per non-b0 volume
\* in the same ascending index order, and ModulateDWIs.in_file and
\* operand_value have one entry per CoRegistration result.
C8_IterfieldsAligned ==
    /\ "CoRegistration" \notin failed
    /\ "ModulateDWIs" \notin failed
    /\ "CoRegistration" \in DOMAIN ins =>
          LET in_file == ins["CoRegistration"].in_file
              in_matrix_file == ins["CoRegistration"].in_matrix_file
              idx == Ascending(NonZeroIndices)
          IN  /\ Len(in_file) = Len(idx)
              /\ Len(in_matrix_file) = Len(idx)
              /\ \A k \in 1..Len(idx) :
                    /\ in_file[k] = Vol(idx[k])
                    /\ in_matrix_file[k] = ExpectedInit[k]
    /\ "ModulateDWIs" \in DOMAIN ins =>
          LET in_file == ins["ModulateDWIs"].in_file
              operand_value == ins["ModulateDWIs"].operand_value
              reg == out["CoRegistration"].out_file
              mats == out["CoRegistration"].out_matrix_file
          IN  /\ Len(in_file) = Len(reg)
              /\ Len(operand_value) = Len(reg)
              /\ \A k \in 1..Len(reg) :
                    /\ in_file[k] = reg[k]
                    /\ operand_value[k] \in {det(mats[k].rows), -det(mats[k].rows)}

C8_Witness ==
    /\ wf = "ecc"
    /\ BvalTable = <<1000, 0, 1000>>
    /\ inputs.in_xfms = HmcXfms(3)
    /\ "ModulateDWIs" \in DOMAIN ins
    /\ ins["CoRegistration"].in_file = <<Vol(0), Vol(2)>>
    /\ ins["CoRegistration"].in_matrix_file =
          <<MatFile("hmc_0.mat", RotZ), MatFile("hmc_2.mat", RotZ)>>
    /\ Len(ins["ModulateDWIs"].operand_value) = 2

---------------------------------------------------------------------------
(* An executor of a workflow's graph, as the workflow engine's plugins are: *)
(* it starts a node that it has not started once every node connected to   *)
(* it has finished, independent nodes may run at the same time, and every  *)
(* node it starts finishes.                                                *)

Workflows == {"hmc", "ecc", "sdc"}

ExecInit == \E w \in Workflows : InitWorkflow(w, <<>>)

Start(n) ==
    /\ Ready(n)
    /\ n \notin running
    /\ running' = running \cup {n}
    /\ runs' = [runs EXCEPT ![n] = @ + 1]
    /\ UNCHANGED <<wf, inputs, ins, out, failed>>
    /\ UNCHANGED testVars

Finished(n) ==
    /\ n \in running
    /\ running' = running \ {n}
    /\ out' = (n :> [finished |-> TRUE]) @@ out
    /\ UNCHANGED <<wf, inputs, ins, failed, runs>>
    /\ UNCHANGED testVars

ExecNext ==
    \/ \E n \in NodesOf(wf) : Start(n)
    \/ \E n \in NodesOf(wf) : Finished(n)

SpecExec == ExecInit /\ [][ExecNext]_vars /\ WF_vars(ExecNext)

RECURSIVE Reach(_, _, _)
Reach(w, S, k) ==
    IF k = 0 THEN S ELSE Reach(w, S \cup UNION {Succs(w, n) : n \in S}, k - 1)

Descendants(w, n) == Reach(w, Succs(w, n), Cardinality(NodesOf(w)))

Acyclic(w) == \A n \in NodesOf(w) : n \notin Descendants(w, n)

AllFromInputnode(w) == (NodesOf(w) \ {"inputnode"}) \subseteq Descendants(w, "inputnode")

SingleSourced(w) ==
    \A j, k \in 1..Len(Connections(w)) :
        (Connections(w)[j].dst = Connections(w)[k].dst
            /\ Connections(w)[j].dstfield = Connections(w)[k].dstfield) => j = k

AllRanOnce == \A n \in NodesOf(wf) : runs[n] = 1 /\ n \in DOMAIN out

Stopped == running = {} /\ \A n \in NodesOf(wf) : ~Ready(n)

\* C9: the graphs of hmc_pipeline, ecc_pipeline and sdc_fmb are acyclic, every
\* node lies on a path from inputnode and no input field has two connections;
\* so the executor runs no node twice, eventually has run every node exactly
\* once and then stops, with outputnode run last in hmc and ecc.
C9_RunsEveryNodeOnce ==
    /\ [](/\ \A w \in Workflows : Acyclic(w) /\ AllFromInputnode(w) /\ SingleSourced(w)
          /\ \A n \in NodesOf(wf) : runs[n] <= 1
          /\ \A n \in running : Preds(wf, n) \subseteq DOMAIN out
          /\ (wf \in {"hmc", "ecc"} /\ runs["outputnode"] = 1) =>
                \A n \in NodesOf(wf) \ {"outputnode"} : runs[n] = 1 /\ n \in DOMAIN out
          /\ AllRanOnce => Stopped)
    /\ <>[](AllRanOnce /\ Stopped)

C9_Witness ==
    /\ wf = "sdc"
    /\ AllRanOnce
    /\ Stopped
    /\ Cardinality(NodesOf(wf)) = 14

---------------------------------------------------------------------------
(* test_auto_Gennlxfm.py: test_Gennlxfm_inputs yields one assert_equal per  *)
(* metadata key of each field of input_map, in the dictionaries' order.     *)

PyStr(x) == [t |-> "str", v |-> x]
PyBool(b) == [t |-> "bool", v |-> b]

input_map_position_first ==
    [args |-> [argstr |-> PyStr("%s")],
     clobber |-> [argstr |-> PyStr("-clobber"), usedefault |-> PyBool(TRUE)],
     environ |-> [nohash |-> PyBool(TRUE), usedefault |-> PyBool(TRUE)],
     ident |-> [argstr |-> PyStr("-ident")],
     ignore_exception |-> [nohash |-> PyBool(TRUE), usedefault |-> PyBool(TRUE)],
     like |-> [argstr |-> PyStr("-like %s")],
     output_file |-> [argstr |-> PyStr("%s"),
                      genfile |-> PyBool(TRUE),
                      hash_files |-> PyBool(FALSE),
                      name_source |-> PyList(<<"like">>),
                      name_template |-> PyStr("%s_gennlxfm.xfm"),
                      position |-> PyInt(0)],
     step |-> [argstr |-> PyStr("-step %s")],
     terminal_output |-> [nohash |-> PyBool(TRUE)],
     verbose |-> [argstr |-> PyStr("-verbose")]]

input_map_clobber_argstr_only ==
    [args |-> [argstr |-> PyStr("%s")],
     clobber |-> [argstr |-> PyStr("-clobber")],
     environ |-> [nohash |-> PyBool(TRUE), usedefault |-> PyBool(TRUE)],
     ident |-> [argstr |-> PyStr("-ident")],
     ignore_exception |-> [nohash |-> PyBool(TRUE), usedefault |-> PyBool(TRUE)],
     like |-> [argstr |-> PyStr("-like %s")],
     output_file |-> [argstr |-> PyStr("%s"),
                      genfile |-> PyBool(TRUE),
                      hash_files |-> PyBool(FALSE),
                      name_source |-> PyList(<<"like">>),
                      name_template |-> PyStr("%s_gennlxfm.xfm"),
                      position |-> PyInt(-1)],
     step |-> [argstr |-> PyStr("-step %s")],
     terminal_output |-> [nohash |-> PyBool(TRUE)],
     verbose |-> [argstr |-> PyStr("-verbose")]]

input_map ==
    [args |-> [argstr |-> PyStr("%s")],
     clobber |-> [argstr |-> PyStr("-clobber"), usedefault |-> PyBool(TRUE)],
     environ |-> [nohash |-> PyBool(TRUE), usedefault |-> PyBool(TRUE)],
     ident |-> [argstr |-> PyStr("-ident")],
     ignore_exception |-> [nohash |-> PyBool(TRUE), usedefault |-> PyBool(TRUE)],
     like |-> [argstr |-> PyStr("-like %s")],
     output_file |-> [argstr |-> PyStr("%s"),
                      genfile |-> PyBool(TRUE),
                      hash_files |-> PyBool(FALSE),
                      name_source |-> PyList(<<"like">>),
                      name_template |-> PyStr("%s_gennlxfm.xfm"),
                      position |-> PyInt(-1)],
     step |-> [argstr |-> PyStr("-step %s")],
     terminal_output |-> [nohash |-> PyBool(TRUE)],
     verbose |-> [argstr |-> PyStr("-verbose")]]

(* A trait is its metadata and its default value; an attribute that is not *)
(* metadata of the trait reads as None.                                    *)

Trait(metadata, default) == [metadata |-> metadata, default |-> default]

getattr(trait, metakey) ==
    IF metakey \in DOMAIN trait.metadata THEN trait.metadata[metakey] ELSE None

IsNumber(x) == x.t \in {"int", "bool"}

AsNumber(x) == IF x.t = "bool" THEN (IF x.v THEN 1 ELSE 0) ELSE x.v

equal(first, second) ==
    IF IsNumber(first) /\ IsNumber(second) THEN AsNumber(first) = AsNumber(second)
    ELSE first.t = second.t /\ first.v = second.v

(* The traits of Gennlxfm.input_spec(), and classes that differ from it in *)
(* one trait: what the test is run against.                                *)

GennlxfmInputSpec ==
    [args |-> Trait([argstr |-> PyStr("%s")], None),
     clobber |-> Trait([argstr |-> PyStr("-clobber"), usedefault |-> PyBool(TRUE)],
                       PyBool(TRUE)),
     environ |-> Trait([nohash |-> PyBool(TRUE), usedefault |-> PyBool(TRUE)], None),
     ident |-> Trait([argstr |-> PyStr("-ident")], PyBool(FALSE)),
     ignore_exception |-> Trait([nohash |-> PyBool(TRUE), usedefault |-> PyBool(TRUE)],
                                PyBool(FALSE)),
     like |-> Trait([argstr |-> PyStr("-like %s")], None),
     output_file |-> Trait([argstr |-> PyStr("%s"),
                            genfile |-> PyBool(TRUE),
                            hash_files |-> PyBool(FALSE),
                            name_source |-> PyList(<<"like">>),
                            name_template |-> PyStr("%s_gennlxfm.xfm"),
                            position |-> PyInt(-1)], None),
     step |-> Trait([argstr |-> PyStr("-step %s")], None),
     terminal_output |-> Trait([nohash |-> PyBool(TRUE)], None),
     verbose |-> Trait([argstr |-> PyStr("-verbose")], PyBool(FALSE))]

ClassesUnderTest ==
    { [name |-> "Gennlxfm", traits |-> GennlxfmInputSpec],
      [name |-> "clobber_default_off",
       traits |-> [GennlxfmInputSpec EXCEPT !.clobber.default = PyBool(FALSE)]],
      [name |-> "clobber_no_usedefault",
       traits |-> [GennlxfmInputSpec EXCEPT
                      !.clobber.metadata = [argstr |-> PyStr("-clobber")]]],
      [name |-> "output_file_first",
       traits |-> [GennlxfmInputSpec EXCEPT !.output_file.metadata.position = PyInt(0)]] }

TestInit ==
    /\ wf = "test"
    /\ inputs = <<>>
    /\ ins = <<>>
    /\ out = <<>>
    /\ failed = {}
    /\ runs = <<>>
    /\ running = {}
    /\ cls \in ClassesUnderTest
    /\ keysLeft = DOMAIN input_map
    /\ curKey = ""
    /\ metaLeft = {}
    /\ asserted = {}
    /\ failures = {}

Test_NextField ==
    /\ curKey = ""
    /\ \E key \in keysLeft :
          /\ keysLeft' = keysLeft \ {key}
          /\ IF DOMAIN input_map[key] = {}
             THEN curKey' = "" /\ metaLeft' = {}
             ELSE curKey' = key /\ metaLeft' = DOMAIN input_map[key]
    /\ UNCHANGED <<cls, asserted, failures>>
    /\ UNCHANGED <<wf, inputs, ins, out, failed, runs, running>>

Test_AssertEqual ==
    /\ curKey # ""
    /\ \E metakey \in metaLeft :
          /\ metaLeft' = metaLeft \ {metakey}
          /\ curKey' = IF metaLeft' = {} THEN "" ELSE curKey
          /\ asserted' = asserted \cup {<<curKey, metakey>>}
          /\ failures' =
                IF equal(getattr(cls.traits[curKey], metakey), input_map[curKey][metakey])
                THEN failures
                ELSE failures \cup {<<curKey, metakey>>}
    /\ UNCHANGED <<cls, keysLeft>>
    /\ UNCHANGED <<wf, inputs, ins, out, failed, runs, running>>

TestNext ==
    \/ Test_NextField
    \/ Test_AssertEqual

SpecTest == TestInit /\ [][TestNext]_vars

TestDone == wf = "test" /\ keysLeft = {} /\ curKey = ""

ExpectedFields ==
    {"args", "clobber", "environ", "ident", "ignore_exception", "like", "output_file",
     "step", "terminal_output", "verbose"}

Holds(key, metakey) == equal(getattr(cls.traits[key], metakey), input_map[key][metakey])

AssertedOf(key) == {p[2] : p \in {q \in asserted : q[1] = key}}

FailedOf(key) == {p[2] : p \in {q \in failures : q[1] = key}}

\* C1: for every field of the expected mapping (args, clobber, environ,
\* ident, ignore_exception, like, output_file, step, terminal_output, verbose)
\* and every metadata key listed for it, the trait of Gennlxfm.input_spec()
\* carries the expected value, so every assert_equal of the test passes;
\* output_file has argstr '%s', name_template '%s_gennlxfm.xfm', name_source
\* ['like'], genfile True, hash_files False and position -1.
C1_GennlxfmMetadata ==
    /\ DOMAIN input_map = ExpectedFields
    /\ input_map.output_file =
          [argstr |-> PyStr("%s"), name_template |-> PyStr("%s_gennlxfm.xfm"),
           name_source |-> PyList(<<"like">>), genfile |-> PyBool(TRUE),
           hash_files |-> PyBool(FALSE), position |-> PyInt(-1)]
    /\ (wf = "test" /\ cls.name = "Gennlxfm") =>
          /\ failures = {}
          /\ \A p \in asserted : Holds(p[1], p[2])
          /\ TestDone =>
                /\ \A key \in ExpectedFields : AssertedOf(key) = DOMAIN input_map[key]
                /\ \A metakey \in DOMAIN input_map.output_file :
                      getattr(cls.traits.output_file, metakey) = input_map.output_file[metakey]

C1_Witness ==
    /\ TestDone
    /\ cls.name = "Gennlxfm"
    /\ failures = {}
    /\ <<"output_file", "position">> \in asserted
    /\ getattr(cls.traits.output_file, "position") = PyInt(-1)
    /\ Cardinality(asserted) = 18

====
